---- MODULE Spec2Model ----
(***************************************************************************)
(* Magnetizability tensor for UHF (pyscf/prop/magnetizability/uhf.py).     *)
(* dia and para are modelled step by step: every call of an external       *)
(* collaborator (logger, _get_dia_1e, get_jk, get_fock, get_ovlp,          *)
(* solve_mo1) is one step, which may fail; the numpy code between two      *)
(* collaborator calls is evaluated on small exact arrays.                  *)
(*                                                                         *)
(* Numbers are Gaussian integers <<re, im>> (exact stand-ins for Python    *)
(* floats / complex), arrays are [shape, data] with 1-based index tuples,  *)
(* Python objects holding arrays live in `heap` under a name, so that      *)
(* aliasing, views and in-place updates (+=, -=) act as numpy's do.        *)
(***************************************************************************)
EXTENDS Integers, Sequences, FiniteSets, TLC

\* Largest number of molecular orbitals (= atomic orbitals) per spin.
MaxNmo == 2

\* Field directions: the tensor is reshape(3, 3).
Dim == 3
\* Components asked of the int2e_gg1 / int2e_g1g2 integrals (comp = 9).
NComp == 9

None == "None"
PyTrue == "True"
PyFalse == "False"

----------------------------------------------------------------------------
\* Numbers

Cx(re, im) == <<re, im>>
Re(z) == z[1]
Im(z) == z[2]
Zero == Cx(0, 0)
CAdd(a, b) == Cx(a[1] + b[1], a[2] + b[2])
CSub(a, b) == Cx(a[1] - b[1], a[2] - b[2])
CMul(a, b) == Cx(a[1] * b[1] - a[2] * b[2], a[1] * b[2] + a[2] * b[1])
CNeg(a) == Cx(0 - a[1], 0 - a[2])
CConj(a) == Cx(a[1], 0 - a[2])
\* x * .5, exact on the even numbers it is applied to
CHalf(a) == Cx(a[1] \div 2, a[2] \div 2)

\* A small value in -2..2 spread over k: the entries the collaborators return.
Mix(k) == (k % 5) - 2

----------------------------------------------------------------------------
\* numpy arrays

Range(s) == {s[k] : k \in DOMAIN s}

RECURSIVE Indices(_)
Indices(sh) ==
    IF sh = <<>> THEN {<<>>}
    ELSE {<<i>> \o t : i \in 1..Head(sh), t \in Indices(Tail(sh))}

RECURSIVE Size(_)
Size(sh) == IF sh = <<>> THEN 1 ELSE Head(sh) * Size(Tail(sh))

Arr(sh, d) == [shape |-> sh, data |-> d]

\* What an array operation yields when numpy raises (shape mismatch).
Bad == [shape |-> <<0 - 1>>, data |-> <<>>]
IsBad(a) == a.shape = <<0 - 1>>

\* Row-major position (0-based) of index tuple idx in an array of shape sh.
RECURSIVE Flat(_, _)
Flat(sh, idx) ==
    IF sh = <<>> THEN 0
    ELSE (Head(idx) - 1) * Size(Tail(sh)) + Flat(Tail(sh), Tail(idx))

\* a.reshape(sh) / a.ravel(): same elements in row-major order
Reshape(a, sh) ==
    IF IsBad(a) \/ Size(a.shape) # Size(sh) THEN Bad
    ELSE Arr(sh, [i \in Indices(sh) |->
                    a.data[CHOOSE j \in Indices(a.shape) : Flat(a.shape, j) = Flat(sh, i)]])

ArrNeg(a) ==
    IF IsBad(a) THEN Bad ELSE Arr(a.shape, [i \in DOMAIN a.data |-> CNeg(a.data[i])])
ArrConj(a) ==
    IF IsBad(a) THEN Bad ELSE Arr(a.shape, [i \in DOMAIN a.data |-> CConj(a.data[i])])
ArrHalf(a) ==
    IF IsBad(a) THEN Bad ELSE Arr(a.shape, [i \in DOMAIN a.data |-> CHalf(a.data[i])])
\* a + b, a - b for arrays of one shape (no other case arises in dia and para)
ArrAdd(a, b) ==
    IF IsBad(a) \/ IsBad(b) \/ a.shape # b.shape THEN Bad
    ELSE Arr(a.shape, [i \in DOMAIN a.data |-> CAdd(a.data[i], b.data[i])])
ArrSub(a, b) ==
    IF IsBad(a) \/ IsBad(b) \/ a.shape # b.shape THEN Bad
    ELSE Arr(a.shape, [i \in DOMAIN a.data |-> CSub(a.data[i], b.data[i])])

\* The sum of the values of g over the set S.
RECURSIVE SumOver(_, _)
SumOver(S, g) ==
    IF S = {} THEN Zero
    ELSE LET e == CHOOSE x \in S : TRUE
         IN  CAdd(g[e], SumOver(S \ {e}, g))

SetMax(S) == CHOOSE m \in S : \A x \in S : x <= m

RECURSIVE SetToSeq(_)
SetToSeq(S) ==
    IF S = {} THEN <<>>
    ELSE LET e == CHOOSE x \in S : TRUE
         IN  <<e>> \o SetToSeq(S \ {e})

RECURSIVE SumSeq(_)
SumSeq(q) == IF q = <<>> THEN Zero ELSE CAdd(Head(q), SumSeq(Tail(q)))

RECURSIVE ProdSeq(_)
ProdSeq(s) == IF s = <<>> THEN Cx(1, 0) ELSE CMul(Head(s), ProdSeq(Tail(s)))

\* numpy.einsum: subs[k] are the labels of operand ops[k], out the labels kept.
Einsum(subs, out, ops) ==
    LET K == DOMAIN subs
        Pos == UNION {{<<k, p>> : p \in DOMAIN subs[k]} : k \in K}
        Labels == {subs[kp[1]][kp[2]] : kp \in Pos}
        ranksOK == \A k \in K : ~IsBad(ops[k]) /\ Len(subs[k]) = Len(ops[k].shape)
        dimsOK == \A a \in Pos, b \in Pos :
                     subs[a[1]][a[2]] = subs[b[1]][b[2]]
                        => ops[a[1]].shape[a[2]] = ops[b[1]].shape[b[2]]
        dim == [l \in Labels |->
                  LET kp == CHOOSE a \in Pos : subs[a[1]][a[2]] = l
                  IN  ops[kp[1]].shape[kp[2]]]
        Summed == Labels \ Range(out)
        Assign == {f \in [Summed -> 1..SetMax({0} \cup {dim[l] : l \in Summed})] :
                     \A l \in Summed : f[l] <= dim[l]}
        terms == SetToSeq(Assign)
        outShape == [p \in DOMAIN out |-> dim[out[p]]]
        outPos == [l \in Range(out) |-> CHOOSE p \in DOMAIN out : out[p] = l]
        Val(o, f) ==
            ProdSeq([k \in K |->
                ops[k].data[[p \in DOMAIN subs[k] |->
                    IF subs[k][p] \in Summed THEN f[subs[k][p]]
                    ELSE o[outPos[subs[k][p]]]]]])
    IN  IF ~ranksOK THEN Bad
        ELSE IF ~dimsOK THEN Bad
        ELSE Arr(outShape,
                 [o \in Indices(outShape) |->
                     SumSeq([n \in DOMAIN terms |-> Val(o, terms[n])])])

\* a[:, mask] (boolean-mask indexing copies): keep the columns listed in idx
TakeCols(a, idx) ==
    LET sh == <<a.shape[1], Len(idx)>>
    IN  Arr(sh, [i \in Indices(sh) |-> a.data[<<i[1], idx[i[2]]>>]])
\* a[mask] of a vector
TakeVec(a, idx) ==
    LET sh == <<Len(idx)>>
    IN  Arr(sh, [i \in Indices(sh) |-> a.data[<<idx[i[1]]>>]])
\* a[:, mask] of a 3-index array: keep the rows (second index) listed in idx
TakeRows(a, idx) ==
    LET sh == <<a.shape[1], Len(idx), a.shape[3]>>
    IN  IF \E k \in DOMAIN idx : idx[k] > a.shape[2] THEN Bad
        ELSE Arr(sh, [i \in Indices(sh) |-> a.data[<<i[1], idx[i[2]], i[3]>>]])
\* numpy.dot(a, b.T)
DotT(a, b) == Einsum(<< <<"p", "i">>, <<"q", "i">> >>, <<"p", "q">>, <<a, b>>)
\* a * v, v broadcast along the last axis of the matrix a
MulCols(a, v) == Einsum(<< <<"p", "i">>, <<"i">> >>, <<"p", "i">>, <<a, v>>)

\* mo_occ > 0 as the increasing sequence of the indices it selects
RECURSIVE OccUpTo(_, _)
OccUpTo(occ, n) ==
    IF n = 0 THEN <<>>
    ELSE IF Re(occ.data[<<n>>]) > 0 THEN Append(OccUpTo(occ, n - 1), n)
    ELSE OccUpTo(occ, n - 1)
OccIdx(occ) == OccUpTo(occ, occ.shape[1])

\* A digest of an array: what a collaborator's result depends on.
Total(a) == Re(SumOver(DOMAIN a.data, a.data))

----------------------------------------------------------------------------
\* The caller's side: gauge origins, the SCF result, the perturbation tensors

GaugeOrigins == {"(0,0,0)", "(0,0,1)"}
GK(g) == CASE g = None -> 0 [] g = "(0,0,0)" -> 1 [] OTHER -> 2

Owned == {"mo_coeff", "mo_energy", "mo_occ", "h1_in", "s1_in"}
Fresh == {"h1_mo", "s1_mo", "mo1", "mo_e1", "e2", "mag_para", "mag_cc", "ret"}
Names == Owned \cup Fresh

Spins == {1, 2}

CountOcc(occ) == Cardinality({i \in DOMAIN occ : occ[i] > 0})

ScfCoeff(nmo, s) ==
    LET sh == <<nmo, nmo>>
    IN  Arr(sh, [i \in Indices(sh) |-> Cx(Mix(i[1] + 2 * i[2] + s), 0)])
ScfEnergy(nmo, s) ==
    LET sh == <<nmo>>
    IN  Arr(sh, [i \in Indices(sh) |-> Cx(i[1] - 4 - s, 0)])
ScfOcc(occ) ==
    LET sh == <<Len(occ)>>
    IN  Arr(sh, [i \in Indices(sh) |-> Cx(occ[i[1]], 0)])
CallerH1(nmo, nocc, s, cplx) ==
    LET sh == <<Dim, nmo, nocc>>
    IN  Arr(sh, [i \in Indices(sh) |->
                    Cx(Mix(i[1] + 2 * i[2] + 3 * i[3] + s),
                       IF cplx THEN Mix(i[1] + i[2] + i[3]) ELSE 0)])
CallerS1(nmo, nocc, s, cplx) ==
    LET sh == <<Dim, nmo, nocc>>
    IN  Arr(sh, [i \in Indices(sh) |->
                    Cx(Mix(2 * i[1] + i[2] + i[3] + 3 * s),
                       IF cplx THEN Mix(i[1] + 2 * i[3]) ELSE 0)])

----------------------------------------------------------------------------
\* The external collaborators: deterministic functions of what they are given

GetDia1e(mol, gauge, dm0, dme0) ==
    LET t == GK(gauge) + Total(dm0) + 2 * Total(dme0)
        sh == <<Dim, Dim>>
    IN  Arr(sh, [i \in Indices(sh) |-> Cx(Mix(i[1] + 3 * i[2] + t), 0)])

\* the integrals are even numbers: the factor .5 of lines 62-65 is exact
GetJK(mol, dms, intor) ==
    [k \in DOMAIN dms |->
        LET t == k + Total(dms[k]) + (IF intor = "int2e_gg1" THEN 0 ELSE 3)
            sh == <<NComp, mol.nao, mol.nao>>
        IN  Arr(sh, [i \in Indices(sh) |-> Cx(2 * Mix(i[1] + i[2] + 2 * i[3] + t), 0)])]

GetFock(mol, dm0, gauge) ==
    [s \in Spins |->
        LET t == s + GK(gauge) + Total(dm0[s])
            sh == <<Dim, mol.nao, mol.nao>>
        IN  Arr(sh, [i \in Indices(sh) |->
                        Cx(Mix(i[1] + i[2] + 2 * i[3] + t),
                           IF mol.cplx THEN Mix(i[1] + i[3]) ELSE 0)])]

GetOvlp(mol, gauge) ==
    LET sh == <<Dim, mol.nao, mol.nao>>
    IN  Arr(sh, [i \in Indices(sh) |->
                    Cx(Mix(2 * i[1] + i[2] + i[3] + GK(gauge)),
                       IF mol.cplx THEN Mix(i[2] + 2 * i[3]) ELSE 0)])

\* mo1 of shape (3, nmo, nocc) and mo_e1 of shape (3, nocc, nocc) per spin; the
\* response added when the CPHF equation is solved makes the two cases differ
SolveMo1(mo_energy, mo_coeff, mo_occ, h1, s1, with_cphf) ==
    LET idx == [s \in Spins |-> OccIdx(mo_occ[s])]
        resp(i) == IF with_cphf = PyTrue THEN Cx(Mix(i[1] + i[2] + 2 * i[3]), 0) ELSE Zero
        she1 == [s \in Spins |-> <<Dim, Len(idx[s]), Len(idx[s])>>]
    IN  [mo1 |-> [s \in Spins |->
                    Arr(h1[s].shape,
                        [i \in Indices(h1[s].shape) |->
                            CAdd(CSub(h1[s].data[i],
                                      CMul(s1[s].data[i],
                                           mo_energy[s].data[<<idx[s][i[3]]>>])),
                                 resp(i))])],
         mo_e1 |-> [s \in Spins |->
                    Arr(she1[s],
                        [i \in Indices(she1[s]) |->
                            CAdd(h1[s].data[<<i[1], idx[s][i[2]], i[3]>>], resp(i))])]]

----------------------------------------------------------------------------
\* State

VARIABLES
    magobj,   \* the driver object: mol, _scf, cphf
    mf,       \* the SCF object: the names of its mo_coeff, mo_energy, mo_occ
    heap,     \* name -> the arrays of that Python object (<<>>: no such object)
    pc,       \* the position in the running call; idle, done or failed otherwise
    fr,       \* the frame of the call: arguments and local variables
    trace,    \* the collaborator calls made by the call, in order
    ret,      \* the name of the returned tensor
    err,      \* the failure the call ended with
    hist      \* history: the first call that returned (its inputs, its tensor),
              \* and whether the call that has just returned repeats its inputs

vars == <<magobj, mf, heap, pc, fr, trace, ret, err, hist>>

NoFrame ==
    [fn |-> None, gauge_orig |-> None, h1arg |-> None, s1arg |-> None,
     cphfarg |-> None, h1 |-> None, s1 |-> None, with_cphf |-> None,
     orbo |-> <<>>, dm |-> <<>>, e2 |-> None, e2shape |-> <<>>,
     mag_para |-> None, mo1 |-> None, mo_e1 |-> None]

CallRec(f, g, h, s, c, i) ==
    [fn |-> f, gauge |-> g, h1 |-> h, s1 |-> s, cphf |-> c, intor |-> i]

InitWith(nmo, occ, cplx, recording) ==
    /\ magobj = [mol |-> [nao |-> nmo, cplx |-> cplx], _scf |-> "mf", cphf |-> PyTrue]
    /\ mf = [mo_coeff |-> "mo_coeff", mo_energy |-> "mo_energy", mo_occ |-> "mo_occ"]
    /\ heap = [n \in Names |->
                CASE n = "mo_coeff" -> [s \in Spins |-> ScfCoeff(nmo, s)]
                  [] n = "mo_energy" -> [s \in Spins |-> ScfEnergy(nmo, s)]
                  [] n = "mo_occ" -> [s \in Spins |-> ScfOcc(occ[s])]
                  [] n = "h1_in" -> [s \in Spins |-> CallerH1(nmo, CountOcc(occ[s]), s, cplx)]
                  [] n = "s1_in" -> [s \in Spins |-> CallerS1(nmo, CountOcc(occ[s]), s, cplx)]
                  [] OTHER -> <<>>]
    /\ pc = "idle"
    /\ fr = NoFrame
    /\ trace = <<>>
    /\ ret = None
    /\ err = None
    /\ hist = [on |-> recording, set |-> FALSE, again |-> FALSE, key |-> <<>>, val |-> <<>>]

Init ==
    \E nmo \in 1..MaxNmo, cplx \in BOOLEAN :
        \E occ \in [Spins -> [1..nmo -> {0, 1}]] :
            InitWith(nmo, occ, cplx, FALSE)

Running == pc \notin {"idle", "done", "failed"}

\* What is left of the heap once a call's own objects are gone.
Collect(hp) == [n \in Names |-> IF n \in Owned THEN hp[n] ELSE <<>>]

\* e2 is a view: read and write go through to the object it was taken from
ViewRead(hp, ref, sh) == Reshape(hp[ref][1], sh)
ViewWrite(hp, ref, a) == [hp EXCEPT ![ref] = <<Reshape(a, hp[ref][1].shape)>>]

\* The call ends with a failure raised by the numpy code of dia / para itself.
RaiseOwn ==
    /\ pc' = "failed"
    /\ err' = "own"
    /\ UNCHANGED <<magobj, mf, heap, fr, trace, ret, hist>>

\* the gauge origin handed to _get_dia_1e, line 53
DiaGaugeArg == fr.gauge_orig
\* the gauge origin handed to get_fock (line 105) and to get_ovlp (line 111)
ParaFockGaugeArg == fr.gauge_orig
ParaOvlpGaugeArg == fr.gauge_orig
ParaCphfSwitchFromArg == IF fr.with_cphf = None THEN magobj.cphf ELSE fr.with_cphf

\* with_cphf = magobj.cphf, line 115: the switch handed to solve_mo1
ParaCphfSwitch == magobj.cphf

\* The collaborator call made at the position the call is at: every position
\* but the last of dia and of para is one call of a collaborator.
CollabCall ==
    CASE pc = "d_1e" -> CallRec("_get_dia_1e", DiaGaugeArg, None, None, None, None)
      [] pc = "d_gg1" -> CallRec("get_jk", None, None, None, None, "int2e_gg1")
      [] pc = "d_g1g2" -> CallRec("get_jk", None, None, None, None, "int2e_g1g2")
      [] pc = "p_log" -> CallRec("logger", None, None, None, None, None)
      [] pc = "p_fock" -> CallRec("get_fock", ParaFockGaugeArg, None, None, None, None)
      [] pc = "p_timer1" -> CallRec("timer", None, None, None, None, None)
      [] pc = "p_ovlp" -> CallRec("get_ovlp", ParaOvlpGaugeArg, None, None, None, None)
      [] pc = "p_solve" -> CallRec("solve_mo1", None, fr.h1, fr.s1, ParaCphfSwitch, None)
      [] pc = "p_timer2" -> CallRec("timer", None, None, None, None, None)
      [] OTHER -> CallRec(None, None, None, None, None, None)

----------------------------------------------------------------------------
\* dia(magobj, gauge_orig=None)

DiaFrame(g) == [NoFrame EXCEPT !.fn = "dia", !.gauge_orig = g]

CallDia ==
    /\ pc = "idle"
    /\ \E g \in {None} \cup GaugeOrigins : fr' = DiaFrame(g)
    /\ pc' = "d_1e"
    /\ UNCHANGED <<magobj, mf, heap, trace, ret, err, hist>>

\* lines 44-51
DiaDensities(mo_coeff, mo_energy, mo_occ) ==
    LET orbo == [s \in Spins |-> TakeCols(mo_coeff[s], OccIdx(mo_occ[s]))]
        dm0s == [s \in Spins |-> DotT(orbo[s], orbo[s])]
        dme0s == [s \in Spins |->
                    DotT(MulCols(orbo[s], TakeVec(mo_energy[s], OccIdx(mo_occ[s]))),
                         orbo[s])]
    IN  [dm0a |-> dm0s[1], dm0b |-> dm0s[2], dm0 |-> ArrAdd(dm0s[1], dm0s[2]),
         dme0 |-> ArrAdd(dme0s[1], dme0s[2])]

DiaAlwaysTwoElectron == TRUE

\* line 55
DiaWithTwoElectron == fr.gauge_orig = None

\* lines 39-53, and the branch of line 55
DiaOneElectron ==
    /\ pc = "d_1e"
    /\ LET d == DiaDensities(heap[mf.mo_coeff], heap[mf.mo_energy], heap[mf.mo_occ])
           e1 == GetDia1e(magobj.mol, DiaGaugeArg, d.dm0, d.dme0)
       IN  /\ trace' = Append(trace, CollabCall)
           /\ IF IsBad(d.dm0) \/ IsBad(d.dme0)
              THEN RaiseOwn
              ELSE /\ heap' = [heap EXCEPT !["e2"] = <<e1>>]
                   /\ fr' = [fr EXCEPT !.dm = <<d.dm0, d.dm0a, d.dm0b>>,
                                       !.e2 = "e2",
                                       !.e2shape = <<Size(e1.shape)>>]
                   /\ pc' = IF DiaWithTwoElectron THEN "d_gg1" ELSE "d_ret"
                   /\ UNCHANGED <<magobj, mf, ret, err, hist>>

\* numpy.einsum('xpq,qp->x', v, dm)
TraceWith(v, dm) == Einsum(<< <<"x", "p", "q">>, <<"q", "p">> >>, <<"x">>, <<v, dm>>)

\* lines 61-65
DiaAddGG1(e2, vs, dm0, dm0a, dm0b) ==
    LET t1 == ArrAdd(e2, TraceWith(vs[1], dm0))
        t2 == ArrSub(t1, ArrHalf(TraceWith(vs[2], dm0a)))
        t3 == ArrSub(t2, ArrHalf(TraceWith(vs[3], dm0a)))
        t4 == ArrSub(t3, ArrHalf(TraceWith(vs[4], dm0b)))
    IN  ArrSub(t4, ArrHalf(TraceWith(vs[5], dm0b)))

\* lines 56-65
DiaGG1 ==
    /\ pc = "d_gg1"
    /\ LET dm0 == fr.dm[1]
           dm0a == fr.dm[2]
           dm0b == fr.dm[3]
           vs == GetJK(magobj.mol, <<dm0, dm0a, dm0a, dm0b, dm0b>>, "int2e_gg1")
           e2 == DiaAddGG1(ViewRead(heap, fr.e2, fr.e2shape), vs, dm0, dm0a, dm0b)
       IN  /\ trace' = Append(trace, CollabCall)
           /\ IF IsBad(e2)
              THEN RaiseOwn
              ELSE /\ heap' = ViewWrite(heap, fr.e2, e2)
                   /\ pc' = "d_g1g2"
                   /\ UNCHANGED <<magobj, mf, fr, ret, err, hist>>

\* lines 69-70
DiaSubG1G2(e2, vk, dm0a, dm0b) ==
    ArrSub(ArrSub(e2, TraceWith(vk[1], dm0a)), TraceWith(vk[2], dm0b))

\* lines 67-70
DiaG1G2 ==
    /\ pc = "d_g1g2"
    /\ LET dm0a == fr.dm[2]
           dm0b == fr.dm[3]
           vk == GetJK(magobj.mol, <<dm0a, dm0b>>, "int2e_g1g2")
           e2 == DiaSubG1G2(ViewRead(heap, fr.e2, fr.e2shape), vk, dm0a, dm0b)
       IN  /\ trace' = Append(trace, CollabCall)
           /\ IF IsBad(e2)
              THEN RaiseOwn
              ELSE /\ heap' = ViewWrite(heap, fr.e2, e2)
                   /\ pc' = "d_ret"
                   /\ UNCHANGED <<magobj, mf, fr, ret, err, hist>>

DiaResultFlat(e2) == ArrNeg(e2)

\* -e2.reshape(3, 3), line 72: the negation makes a new array
DiaResult(e2) == ArrNeg(Reshape(e2, <<Dim, Dim>>))

\* The inputs of the call that is returning, and the record kept of it.
CallKey == <<fr.fn, fr.gauge_orig, fr.h1arg, fr.s1arg, fr.cphfarg, magobj, mf>>
Record(val) ==
    IF ~hist.on THEN hist
    ELSE IF ~hist.set
         THEN [on |-> TRUE, set |-> TRUE, again |-> FALSE, key |-> CallKey, val |-> val]
    ELSE [hist EXCEPT !.again = (CallKey = hist.key)]

DiaReturn ==
    /\ pc = "d_ret"
    /\ LET r == DiaResult(ViewRead(heap, fr.e2, fr.e2shape))
       IN  IF IsBad(r)
           THEN /\ RaiseOwn
           ELSE /\ heap' = [heap EXCEPT !["ret"] = <<r>>]
                /\ ret' = "ret"
                /\ pc' = "done"
                /\ hist' = Record(r)
                /\ UNCHANGED <<magobj, mf, fr, trace, err>>

----------------------------------------------------------------------------
\* para(magobj, gauge_orig=None, h1=None, s1=None, with_cphf=None)

ParaFrame(g, h, s, w) ==
    [NoFrame EXCEPT !.fn = "para", !.gauge_orig = g,
                    !.h1arg = h, !.s1arg = s, !.cphfarg = w,
                    !.h1 = h, !.s1 = s, !.with_cphf = w]

CallPara ==
    /\ pc = "idle"
    /\ \E g \in {None} \cup GaugeOrigins, h \in {None, "h1_in"},
          s \in {None, "s1_in"}, w \in {None, PyTrue, PyFalse} :
         fr' = ParaFrame(g, h, s, w)
    /\ pc' = "p_log"
    /\ UNCHANGED <<magobj, mf, heap, trace, ret, err, hist>>

ParaAlwaysOvlp == TRUE

\* lines 102, 109: which operator is still to be assembled
ParaNeedFock == fr.h1 = None
ParaNeedOvlp == fr.s1 = None
ParaAfterFock == IF ParaNeedOvlp THEN "p_ovlp" ELSE "p_solve"
ParaAfterLogger == IF ParaNeedFock THEN "p_fock" ELSE ParaAfterFock

\* lines 91-100: the logger and the clock, then the occupied orbitals
ParaLogger ==
    /\ pc = "p_log"
    /\ LET mo_coeff == heap[mf.mo_coeff]
           mo_occ == heap[mf.mo_occ]
       IN  fr' = [fr EXCEPT !.orbo = [s \in Spins |-> TakeCols(mo_coeff[s], OccIdx(mo_occ[s]))]]
    /\ trace' = Append(trace, CollabCall)
    /\ pc' = ParaAfterLogger
    /\ UNCHANGED <<magobj, mf, heap, ret, err, hist>>

\* lib.einsum('xpq,pi,qj->xij', a, mo_coeff.conj(), orbo)
ToMO(a, mo_coeff, orbo) ==
    Einsum(<< <<"x", "p", "q">>, <<"p", "i">>, <<"q", "j">> >>, <<"x", "i", "j">>,
           <<a, ArrConj(mo_coeff), orbo>>)

\* lines 104-107
ParaFock ==
    /\ pc = "p_fock"
    /\ LET mo_coeff == heap[mf.mo_coeff]
           dm0 == [s \in Spins |-> DotT(fr.orbo[s], fr.orbo[s])]
           h1ao == GetFock(magobj.mol, dm0, ParaFockGaugeArg)
           h1 == [s \in Spins |-> ToMO(h1ao[s], mo_coeff[s], fr.orbo[s])]
       IN  /\ trace' = Append(trace, CollabCall)
           /\ IF \E s \in Spins : IsBad(h1[s])
              THEN RaiseOwn
              ELSE /\ heap' = [heap EXCEPT !["h1_mo"] = h1]
                   /\ fr' = [fr EXCEPT !.h1 = "h1_mo"]
                   /\ pc' = "p_timer1"
                   /\ UNCHANGED <<magobj, mf, ret, err, hist>>

\* line 108
ParaTimer1 ==
    /\ pc = "p_timer1"
    /\ trace' = Append(trace, CollabCall)
    /\ pc' = ParaAfterFock
    /\ UNCHANGED <<magobj, mf, heap, fr, ret, err, hist>>

\* lines 111-113
ParaOvlp ==
    /\ pc = "p_ovlp"
    /\ LET mo_coeff == heap[mf.mo_coeff]
           s1ao == GetOvlp(magobj.mol, ParaOvlpGaugeArg)
           s1 == [s \in Spins |-> ToMO(s1ao, mo_coeff[s], fr.orbo[s])]
       IN  /\ trace' = Append(trace, CollabCall)
           /\ IF \E s \in Spins : IsBad(s1[s])
              THEN RaiseOwn
              ELSE /\ heap' = [heap EXCEPT !["s1_mo"] = s1]
                   /\ fr' = [fr EXCEPT !.s1 = "s1_mo"]
                   /\ pc' = "p_solve"
                   /\ UNCHANGED <<magobj, mf, ret, err, hist>>

\* lines 115-117
ParaSolve ==
    /\ pc = "p_solve"
    /\ LET r == SolveMo1(heap[mf.mo_energy], heap[mf.mo_coeff], heap[mf.mo_occ],
                         heap[fr.h1], heap[fr.s1], ParaCphfSwitch)
       IN  /\ heap' = [heap EXCEPT !["mo1"] = r.mo1, !["mo_e1"] = r.mo_e1]
           /\ fr' = [fr EXCEPT !.with_cphf = ParaCphfSwitch,
                               !.mo1 = "mo1", !.mo_e1 = "mo_e1"]
    /\ trace' = Append(trace, CollabCall)
    /\ pc' = "p_timer2"
    /\ UNCHANGED <<magobj, mf, ret, err, hist>>

\* line 118
ParaTimer2 ==
    /\ pc = "p_timer2"
    /\ trace' = Append(trace, CollabCall)
    /\ pc' = "p_contract"
    /\ UNCHANGED <<magobj, mf, heap, fr, ret, err, hist>>

\* numpy.einsum('yji,xji->xy', mo1, h1)
ContractH(mo1, h1) ==
    Einsum(<< <<"y", "j", "i">>, <<"x", "j", "i">> >>, <<"x", "y">>, <<mo1, h1>>)
\* numpy.einsum('yji,xji,i->xy', mo1, s1, e)
ContractSE(mo1, s1, e) ==
    Einsum(<< <<"y", "j", "i">>, <<"x", "j", "i">>, <<"i">> >>, <<"x", "y">>,
           <<mo1, s1, e>>)
\* numpy.einsum('xij,yij->xy', s1occ, mo_e1)
ContractE1(s1occ, mo_e1) ==
    Einsum(<< <<"x", "i", "j">>, <<"y", "i", "j">> >>, <<"x", "y">>, <<s1occ, mo_e1>>)

\* lines 122-125: mag_para, a new array updated in place
ParaFirst(mo1, h1, s1, eocc) ==
    LET t1 == ContractH(mo1[1], h1[1])
        t2 == ArrAdd(t1, ContractH(mo1[2], h1[2]))
        t3 == ArrSub(t2, ContractSE(mo1[1], s1[1], eocc[1]))
    IN  ArrSub(t3, ContractSE(mo1[2], s1[2], eocc[2]))

\* the mo_e1 terms with s1 not restricted to its occupied rows
ParaSecondNoMask(m, s1, mo_e1, idx) ==
    LET cc == ArrAdd(m, ArrConj(m))
        t1 == ArrSub(cc, ContractE1(s1[1], mo_e1[1]))
    IN  ArrSub(t1, ContractE1(s1[2], mo_e1[2]))

\* + c.c. taken after the mo_e1 terms
ParaSecondLate(m, s1, mo_e1, idx) ==
    LET t1 == ArrSub(m, ContractE1(TakeRows(s1[1], idx[1]), mo_e1[1]))
        t2 == ArrSub(t1, ContractE1(TakeRows(s1[2], idx[2]), mo_e1[2]))
    IN  ArrAdd(t2, ArrConj(t2))

\* lines 127-130: + c.c. makes a new array, which the mo_e1 terms update in place
ParaSecond(m, s1, mo_e1, idx) ==
    LET cc == ArrAdd(m, ArrConj(m))
        t1 == ArrSub(cc, ContractE1(TakeRows(s1[1], idx[1]), mo_e1[1]))
    IN  ArrSub(t1, ContractE1(TakeRows(s1[2], idx[2]), mo_e1[2]))

\* line 131: the negation makes a new array
ParaResult(m) == ArrNeg(m)

\* a * e, e broadcast along the last axis of the 3-index array a
MulLast(a, e) ==
    Einsum(<< <<"x", "j", "i">>, <<"i">> >>, <<"x", "j", "i">>, <<a, e>>)

\* the energies folded into s1 in place (s1 *= e) before the contraction
ParaContractHeapScaling(hp, f, scf) ==
    LET idx == [s \in Spins |-> OccIdx(hp[scf.mo_occ][s])]
        eocc == [s \in Spins |-> TakeVec(hp[scf.mo_energy][s], idx[s])]
        m == ParaFirst(hp[f.mo1], hp[f.h1], hp[f.s1], eocc)
        m2 == ParaSecond(m, hp[f.s1], hp[f.mo_e1], idx)
    IN  [hp EXCEPT !["mag_para"] = <<m>>, !["mag_cc"] = <<m2>>,
                   !["ret"] = <<ParaResult(m2)>>,
                   ![f.s1] = [s \in Spins |-> MulLast(hp[f.s1][s], eocc[s])]]

\* h1 -= s1 * e in place, then one contraction with mo1: the same tensor, but
\* h1 is left changed
ParaContractHeapFolding(hp, f, scf) ==
    LET idx == [s \in Spins |-> OccIdx(hp[scf.mo_occ][s])]
        eocc == [s \in Spins |-> TakeVec(hp[scf.mo_energy][s], idx[s])]
        h1f == [s \in Spins |-> ArrSub(hp[f.h1][s], MulLast(hp[f.s1][s], eocc[s]))]
        m == ArrAdd(ContractH(hp[f.mo1][1], h1f[1]), ContractH(hp[f.mo1][2], h1f[2]))
        m2 == ParaSecond(m, hp[f.s1], hp[f.mo_e1], idx)
    IN  [hp EXCEPT !["mag_para"] = <<m>>, !["mag_cc"] = <<m2>>,
                   !["ret"] = <<ParaResult(m2)>>,
                   ![f.h1] = h1f]

\* lines 120-131 on the heap: the objects made and updated
ParaContractHeap(hp, f, scf) ==
    LET idx == [s \in Spins |-> OccIdx(hp[scf.mo_occ][s])]
        eocc == [s \in Spins |-> TakeVec(hp[scf.mo_energy][s], idx[s])]
        m == ParaFirst(hp[f.mo1], hp[f.h1], hp[f.s1], eocc)
        m2 == ParaSecond(m, hp[f.s1], hp[f.mo_e1], idx)
    IN  [hp EXCEPT !["mag_para"] = <<m>>, !["mag_cc"] = <<m2>>,
                   !["ret"] = <<ParaResult(m2)>>]

ParaContract ==
    /\ pc = "p_contract"
    /\ LET hp == ParaContractHeap(heap, fr, mf)
       IN  IF IsBad(hp["ret"][1])
           THEN RaiseOwn
           ELSE /\ heap' = hp
                /\ fr' = [fr EXCEPT !.mag_para = "mag_cc"]
                /\ ret' = "ret"
                /\ pc' = "done"
                /\ hist' = Record(hp["ret"][1])
                /\ UNCHANGED <<magobj, mf, trace, err>>

----------------------------------------------------------------------------

\* A collaborator raises: the call ends there with that failure.
CollaboratorFails ==
    /\ Running
    /\ CollabCall.fn # None
    /\ pc' = "failed"
    /\ err' = CollabCall.fn
    /\ trace' = Append(trace, CollabCall)
    /\ UNCHANGED <<magobj, mf, heap, fr, ret, hist>>

\* The caller takes the tensor (or the failure) and goes on: the frame of the
\* call and the objects only it held are gone.
Release ==
    /\ pc \in {"done", "failed"}
    /\ pc' = "idle"
    /\ fr' = NoFrame
    /\ heap' = Collect(heap)
    /\ trace' = <<>>
    /\ ret' = None
    /\ err' = None
    /\ hist' = [hist EXCEPT !.again = FALSE]
    /\ UNCHANGED <<magobj, mf>>

\* The caller sets mag.cphf between two calls (lines 153, 162).
SetCphf ==
    /\ pc = "idle"
    /\ \E b \in {PyTrue, PyFalse} :
         /\ b # magobj.cphf
         /\ magobj' = [magobj EXCEPT !.cphf = b]
    /\ UNCHANGED <<mf, heap, pc, fr, trace, ret, err, hist>>

Next ==
    \/ CallDia
    \/ DiaOneElectron
    \/ DiaGG1
    \/ DiaG1G2
    \/ DiaReturn
    \/ CallPara
    \/ ParaLogger
    \/ ParaFock
    \/ ParaTimer1
    \/ ParaOvlp
    \/ ParaSolve
    \/ ParaTimer2
    \/ ParaContract
    \/ CollaboratorFails
    \/ Release
    \/ SetCphf

Spec == Init /\ [][Next]_vars

\* One molecule, with the first returned call kept for comparison.
InitHist ==
    InitWith(MaxNmo, [s \in Spins |-> [i \in 1..MaxNmo |-> IF s = 2 \/ i = 1 THEN 1 ELSE 0]],
             FALSE, TRUE)

SpecHist == InitHist /\ [][Next]_vars

----------------------------------------------------------------------------
\* Properties

CountCalls(f) == Cardinality({k \in DOMAIN trace : trace[k].fn = f})
TraceFns == [k \in DOMAIN trace |-> trace[k].fn]
Returned == heap[ret][1]

\* The caller's arrays hold what the caller put there.
InputsIntact ==
    LET nmo == magobj.mol.nao
        occ == [s \in Spins |-> [i \in 1..nmo |-> Re(heap["mo_occ"][s].data[<<i>>])]]
    IN  /\ mf = [mo_coeff |-> "mo_coeff", mo_energy |-> "mo_energy", mo_occ |-> "mo_occ"]
        /\ magobj._scf = "mf"
        /\ \A s \in Spins :
             /\ heap["mo_coeff"][s] = ScfCoeff(nmo, s)
             /\ heap["mo_energy"][s] = ScfEnergy(nmo, s)
             /\ heap["mo_occ"][s] = ScfOcc(occ[s])
             /\ heap["h1_in"][s] = CallerH1(nmo, CountOcc(occ[s]), s, magobj.mol.cplx)
             /\ heap["s1_in"][s] = CallerS1(nmo, CountOcc(occ[s]), s, magobj.mol.cplx)

\* C1: when para is given a boolean with_cphf, the CPHF switch handed to
\* solve_mo1 is that boolean, whatever magobj.cphf is.
C1_WithCphfArgumentDecides ==
    \A k \in DOMAIN trace :
        (trace[k].fn = "solve_mo1" /\ fr.cphfarg \in {PyTrue, PyFalse})
            => trace[k].cphf = fr.cphfarg

\* C2: no step of dia or para changes the driver object, the SCF object or an
\* array the caller owns (mo_coeff, mo_energy, mo_occ, a given h1 or s1), and
\* the tensor returned is an object that did not exist before the return and
\* is none of the inputs.
C2_InputsUnchanged ==
    [][(pc # "idle" \/ pc' # "idle") =>
         /\ magobj' = magobj
         /\ mf' = mf
         /\ \A n \in Owned : heap'[n] = heap[n]
         /\ (pc' = "done" /\ pc # "done") =>
              /\ ret' \in Fresh
              /\ ret' \notin {mf.mo_coeff, mf.mo_energy, mf.mo_occ, fr.h1, fr.s1}
              /\ heap[ret'] = <<>>
              /\ heap'[ret'] # <<>>]_vars

C2_Witness ==
    /\ pc = "done"
    /\ fr.fn = "para"
    /\ fr.h1arg = "h1_in"
    /\ fr.s1arg = "s1_in"
    /\ ret = "ret"
    /\ \E s \in Spins : \E i \in DOMAIN heap["s1_in"][s].data :
         heap["s1_in"][s].data[i] # Zero

\* C3: the gauge origin given to _get_dia_1e, get_fock and get_ovlp is the
\* caller's gauge_orig; dia calls get_jk (int2e_gg1, then int2e_g1g2) exactly
\* when gauge_orig is None, and with a gauge origin given it returns the
\* negated one-electron term as a 3x3 array.
C3_GaugeOriginForwarded ==
    /\ \A k \in DOMAIN trace :
         trace[k].fn \in {"_get_dia_1e", "get_fock", "get_ovlp"}
            => trace[k].gauge = fr.gauge_orig
    /\ fr.fn = "dia" =>
         /\ CountCalls("get_jk") > 0 => fr.gauge_orig = None
         /\ (pc = "done" /\ fr.gauge_orig = None) =>
              /\ TraceFns = <<"_get_dia_1e", "get_jk", "get_jk">>
              /\ trace[2].intor = "int2e_gg1"
              /\ trace[3].intor = "int2e_g1g2"
         /\ (pc = "done" /\ fr.gauge_orig # None) =>
              LET d == DiaDensities(heap[mf.mo_coeff], heap[mf.mo_energy], heap[mf.mo_occ])
                  e1 == GetDia1e(magobj.mol, fr.gauge_orig, d.dm0, d.dme0)
              IN  /\ TraceFns = <<"_get_dia_1e">>
                  /\ Returned.shape = <<Dim, Dim>>
                  /\ \A i \in Indices(<<Dim, Dim>>) : Returned.data[i] = CNeg(e1.data[i])

C3_Witness ==
    /\ pc = "done"
    /\ fr.fn = "dia"
    /\ fr.gauge_orig = "(0,0,1)"
    /\ TraceFns = <<"_get_dia_1e">>
    /\ \E i \in Indices(<<Dim, Dim>>) : Returned.data[i] # Zero

\* C4: the tensor a call of dia or para returns has exactly 3 rows and 3
\* columns, whatever the number of orbitals and of occupied orbitals per spin.
C4_TensorIs3x3 ==
    pc = "done" =>
        /\ Len(heap[ret]) = 1
        /\ Returned.shape = <<Dim, Dim>>
        /\ DOMAIN Returned.data = Indices(<<Dim, Dim>>)

C4_Witness ==
    /\ pc = "done"
    /\ fr.fn = "para"
    /\ OccIdx(heap[mf.mo_occ][1]) # <<>>
    /\ OccIdx(heap[mf.mo_occ][2]) = <<>>
    /\ Returned.shape = <<Dim, Dim>>

C6_SameInputsSameTensor ==
    (pc = "done" /\ hist.set /\ CallKey = hist.key) => Returned = hist.val

C6_Witness ==
    /\ pc = "done"
    /\ hist.again
    /\ CallKey = hist.key
    /\ fr.fn = "para"
    /\ fr.h1arg = "h1_in"
    /\ Returned = hist.val

C8_ParaStepOrder ==
    fr.fn = "para" =>
        LET past == pc \in {"p_solve", "p_timer2", "p_contract", "done"}
            solved == pc \in {"p_timer2", "p_contract", "done"}
        IN  /\ CountCalls("get_fock") <= 1
            /\ fr.h1arg # None => CountCalls("get_fock") = 0
            /\ (fr.h1arg = None /\ past) => CountCalls("get_fock") = 1
            /\ CountCalls("get_ovlp") <= 1
            /\ fr.s1arg # None => CountCalls("get_ovlp") = 0
            /\ (fr.s1arg = None /\ past) => CountCalls("get_ovlp") = 1
            /\ CountCalls("solve_mo1") <= 1
            /\ solved => CountCalls("solve_mo1") = 1
            /\ \A k \in DOMAIN trace :
                 trace[k].fn = "solve_mo1" =>
                    /\ trace[k].h1 # None /\ heap[trace[k].h1] # <<>>
                    /\ trace[k].s1 # None /\ heap[trace[k].s1] # <<>>
                    /\ fr.h1arg # None => trace[k].h1 = fr.h1arg
                    /\ fr.s1arg # None => trace[k].s1 = fr.s1arg
                    /\ \A j \in DOMAIN trace :
                         trace[j].fn \in {"get_fock", "get_ovlp"} => j < k
            /\ \A j \in DOMAIN trace, k \in DOMAIN trace :
                 (trace[j].fn = "get_fock" /\ trace[k].fn = "get_ovlp") => j < k
            /\ (heap["mag_para"] # <<>> \/ heap["ret"] # <<>>) =>
                 /\ CountCalls("solve_mo1") = 1
                 /\ heap["mo1"] # <<>>
                 /\ heap["mo_e1"] # <<>>

C8_Witness ==
    /\ pc = "done"
    /\ fr.fn = "para"
    /\ fr.h1arg = "h1_in"
    /\ fr.s1arg = None
    /\ TraceFns = <<"logger", "get_ovlp", "solve_mo1", "timer">>

\* The sum of the integers g[e], e in S.
RECURSIVE IntSum(_, _)
IntSum(S, g) ==
    IF S = {} THEN 0
    ELSE LET e == CHOOSE x \in S : TRUE
         IN  g[e] + IntSum(S \ {e}, g)

AllReal(obj) ==
    \A s \in DOMAIN obj : \A i \in DOMAIN obj[s].data : Im(obj[s].data[i]) = 0

RealInputs ==
    /\ AllReal(heap[fr.h1]) /\ AllReal(heap[fr.s1])
    /\ AllReal(heap[fr.mo1]) /\ AllReal(heap[fr.mo_e1])
    /\ AllReal(heap[mf.mo_energy])

\* A[x][y]: sum over spins of sum_ji mo1[y,j,i] h1[x,j,i] - sum_ji mo1[y,j,i] s1[x,j,i] e_i
TermA(x, y) ==
    LET P == {<<s, j, i>> : s \in Spins, j \in 1..magobj.mol.nao, i \in 1..magobj.mol.nao}
        Q == {t \in P : t[3] <= Len(OccIdx(heap[mf.mo_occ][t[1]]))}
    IN  IntSum(Q, [t \in Q |->
            LET mo1 == Re(heap[fr.mo1][t[1]].data[<<y, t[2], t[3]>>])
                h1 == Re(heap[fr.h1][t[1]].data[<<x, t[2], t[3]>>])
                s1 == Re(heap[fr.s1][t[1]].data[<<x, t[2], t[3]>>])
                e == Re(heap[mf.mo_energy][t[1]].data[<<OccIdx(heap[mf.mo_occ][t[1]])[t[3]]>>])
            IN  mo1 * h1 - mo1 * s1 * e])

\* B[x][y]: sum over spins of sum_ij s1[x,i,j] mo_e1[y,i,j], i an occupied row of s1
TermB(x, y) ==
    LET P == {<<s, i, j>> : s \in Spins, i \in 1..magobj.mol.nao, j \in 1..magobj.mol.nao}
        Q == {t \in P : /\ t[2] <= Len(OccIdx(heap[mf.mo_occ][t[1]]))
                        /\ t[3] <= Len(OccIdx(heap[mf.mo_occ][t[1]]))}
    IN  IntSum(Q, [t \in Q |->
            Re(heap[fr.s1][t[1]].data[<<x, OccIdx(heap[mf.mo_occ][t[1]])[t[2]], t[3]>>])
              * Re(heap[fr.mo_e1][t[1]].data[<<y, t[2], t[3]>>])])

\* C9: for real inputs the tensor para returns is -(2 A - B): the doubling
\* (+ c.c.) applies to A only and the mo_e1 term B is subtracted once.
C9_ParaTensorFormula ==
    (pc = "done" /\ fr.fn = "para" /\ RealInputs) =>
        \A x \in 1..Dim, y \in 1..Dim :
            Returned.data[<<x, y>>] = Cx(0 - (2 * TermA(x, y) - TermB(x, y)), 0)

C9_Witness ==
    /\ pc = "done"
    /\ fr.fn = "para"
    /\ RealInputs
    /\ \E x \in 1..Dim, y \in 1..Dim :
         /\ TermA(x, y) # 0
         /\ TermB(x, y) # 0
         /\ Returned.data[<<x, y>>] = Cx(TermB(x, y) - 2 * TermA(x, y), 0)

====
